---------------------------- MODULE Spec2Model ----------------------------
(***************************************************************************)
(* Transaction-commitment soundness auditor.                               *)
(*                                                                         *)
(* The repository holds three entry points that re-implement the same      *)
(* audit: txbatch.py (batch, retry executor, counters and exit code),      *)
(* tx_batch_auditor.py (batch, result records, chain-identity gate) and    *)
(* txapp.py (single transaction, its own retry executor).                  *)
(*                                                                         *)
(* Strings are sequences of one-character strings, bytes are naturals in   *)
(* 0..255.  Keccak-256 is an uninterpreted injective constructor over the  *)
(* preimage: the model decides everything about the preimage and nothing   *)
(* about the digest beyond "equal preimages, equal digests".               *)
(***************************************************************************)
EXTENDS Integers, Sequences, FiniteSets, TLC

(***************************************************************************)
(* Bounds of the model and constants of the program.                       *)
(***************************************************************************)
\* longest raw input list the batch programs are started with
MaxInputs == 2
\* largest `retries` argument safe_rpc_call is called with on its own
MaxRetries == 3

\* safe_rpc_call(..., retries: int = 3, ...)
DefaultRetries == 3
\* len(h) != 66
HashStrLen == 66
\* to_bytes(8, "big")
WordBytes == 8
\* status.to_bytes(1, "big")
StatusBytes == 1

(***************************************************************************)
(* Strings.                                                                *)
(***************************************************************************)
Rep(c, n) == [i \in 1..n |-> c]

\* A character is a one-character string; an ASCII control character the
\* language has no escape for stands for itself, and a character outside
\* ASCII is the token "U+" followed by its code point in hexadecimal (four
\* digits or more, upper case): "U+0660" is ARABIC-INDIC DIGIT ZERO.

\* what bytes.fromhex skips and int() strips of ASCII: space, \t, \n, \r,
\* \f and the vertical tab
AsciiWhitespace == {" ", "\t", "\n", "\r", "\f", ""}

\* the whitespace outside ASCII (str.isspace)
UnicodeWhitespace ==
    {
     "U+0085", "U+00A0", "U+1680", "U+2000", "U+2001",
     "U+2002", "U+2003", "U+2004", "U+2005", "U+2006",
     "U+2007", "U+2008", "U+2009", "U+200A", "U+2028",
     "U+2029", "U+202F", "U+205F", "U+3000"
    }

\* what str.strip() removes: the ASCII whitespace, the separators
\* \x1c..\x1f and the whitespace outside ASCII
Whitespace ==
    AsciiWhitespace \cup {"", "", "", ""} \cup UnicodeWhitespace

\* what int(text, 16) strips: the text is first brought to ASCII, where a
\* whitespace character from outside ASCII becomes a blank, and then the
\* ASCII whitespace goes
IntWhitespace == AsciiWhitespace \cup UnicodeWhitespace

\* the digits outside ASCII that int() reads as 0
UnicodeZeros ==
    {
     "U+0660", "U+06F0", "U+07C0", "U+0966", "U+09E6",
     "U+0A66", "U+0AE6", "U+0B66", "U+0BE6", "U+0C66",
     "U+0CE6", "U+0D66", "U+0DE6", "U+0E50", "U+0ED0",
     "U+0F20", "U+1040", "U+1090", "U+17E0", "U+1810",
     "U+1946", "U+19D0", "U+1A80", "U+1A90", "U+1B50",
     "U+1BB0", "U+1C40", "U+1C50", "U+A620", "U+A8D0",
     "U+A900", "U+A9D0", "U+A9F0", "U+AA50", "U+ABF0",
     "U+FF10", "U+104A0", "U+10D30", "U+11066", "U+110F0",
     "U+11136", "U+111D0", "U+112F0", "U+11450", "U+114D0",
     "U+11650", "U+116C0", "U+11730", "U+118E0", "U+11950",
     "U+11C50", "U+11D50", "U+11DA0", "U+16A60", "U+16AC0",
     "U+16B50", "U+1D7CE", "U+1D7D8", "U+1D7E2", "U+1D7EC",
     "U+1D7F6", "U+1E140", "U+1E2F0", "U+1E950", "U+1FBF0"
    }

\* the decimal digits outside ASCII (category Nd), which int() reads as
\* the digits 0..9
UnicodeDecDigits ==
    {
     "U+0660", "U+0661", "U+0662", "U+0663", "U+0664",
     "U+0665", "U+0666", "U+0667", "U+0668", "U+0669",
     "U+06F0", "U+06F1", "U+06F2", "U+06F3", "U+06F4",
     "U+06F5", "U+06F6", "U+06F7", "U+06F8", "U+06F9",
     "U+07C0", "U+07C1", "U+07C2", "U+07C3", "U+07C4",
     "U+07C5", "U+07C6", "U+07C7", "U+07C8", "U+07C9",
     "U+0966", "U+0967", "U+0968", "U+0969", "U+096A",
     "U+096B", "U+096C", "U+096D", "U+096E", "U+096F",
     "U+09E6", "U+09E7", "U+09E8", "U+09E9", "U+09EA",
     "U+09EB", "U+09EC", "U+09ED", "U+09EE", "U+09EF",
     "U+0A66", "U+0A67", "U+0A68", "U+0A69", "U+0A6A",
     "U+0A6B", "U+0A6C", "U+0A6D", "U+0A6E", "U+0A6F",
     "U+0AE6", "U+0AE7", "U+0AE8", "U+0AE9", "U+0AEA",
     "U+0AEB", "U+0AEC", "U+0AED", "U+0AEE", "U+0AEF",
     "U+0B66", "U+0B67", "U+0B68", "U+0B69", "U+0B6A",
     "U+0B6B", "U+0B6C", "U+0B6D", "U+0B6E", "U+0B6F",
     "U+0BE6", "U+0BE7", "U+0BE8", "U+0BE9", "U+0BEA",
     "U+0BEB", "U+0BEC", "U+0BED", "U+0BEE", "U+0BEF",
     "U+0C66", "U+0C67", "U+0C68", "U+0C69", "U+0C6A",
     "U+0C6B", "U+0C6C", "U+0C6D", "U+0C6E", "U+0C6F",
     "U+0CE6", "U+0CE7", "U+0CE8", "U+0CE9", "U+0CEA",
     "U+0CEB", "U+0CEC", "U+0CED", "U+0CEE", "U+0CEF",
     "U+0D66", "U+0D67", "U+0D68", "U+0D69", "U+0D6A",
     "U+0D6B", "U+0D6C", "U+0D6D", "U+0D6E", "U+0D6F",
     "U+0DE6", "U+0DE7", "U+0DE8", "U+0DE9", "U+0DEA",
     "U+0DEB", "U+0DEC", "U+0DED", "U+0DEE", "U+0DEF",
     "U+0E50", "U+0E51", "U+0E52", "U+0E53", "U+0E54",
     "U+0E55", "U+0E56", "U+0E57", "U+0E58", "U+0E59",
     "U+0ED0", "U+0ED1", "U+0ED2", "U+0ED3", "U+0ED4",
     "U+0ED5", "U+0ED6", "U+0ED7", "U+0ED8", "U+0ED9",
     "U+0F20", "U+0F21", "U+0F22", "U+0F23", "U+0F24",
     "U+0F25", "U+0F26", "U+0F27", "U+0F28", "U+0F29",
     "U+1040", "U+1041", "U+1042", "U+1043", "U+1044",
     "U+1045", "U+1046", "U+1047", "U+1048", "U+1049",
     "U+1090", "U+1091", "U+1092", "U+1093", "U+1094",
     "U+1095", "U+1096", "U+1097", "U+1098", "U+1099",
     "U+17E0", "U+17E1", "U+17E2", "U+17E3", "U+17E4",
     "U+17E5", "U+17E6", "U+17E7", "U+17E8", "U+17E9",
     "U+1810", "U+1811", "U+1812", "U+1813", "U+1814",
     "U+1815", "U+1816", "U+1817", "U+1818", "U+1819",
     "U+1946", "U+1947", "U+1948", "U+1949", "U+194A",
     "U+194B", "U+194C", "U+194D", "U+194E", "U+194F",
     "U+19D0", "U+19D1", "U+19D2", "U+19D3", "U+19D4",
     "U+19D5", "U+19D6", "U+19D7", "U+19D8", "U+19D9",
     "U+1A80", "U+1A81", "U+1A82", "U+1A83", "U+1A84",
     "U+1A85", "U+1A86", "U+1A87", "U+1A88", "U+1A89",
     "U+1A90", "U+1A91", "U+1A92", "U+1A93", "U+1A94",
     "U+1A95", "U+1A96", "U+1A97", "U+1A98", "U+1A99",
     "U+1B50", "U+1B51", "U+1B52", "U+1B53", "U+1B54",
     "U+1B55", "U+1B56", "U+1B57", "U+1B58", "U+1B59",
     "U+1BB0", "U+1BB1", "U+1BB2", "U+1BB3", "U+1BB4",
     "U+1BB5", "U+1BB6", "U+1BB7", "U+1BB8", "U+1BB9",
     "U+1C40", "U+1C41", "U+1C42", "U+1C43", "U+1C44",
     "U+1C45", "U+1C46", "U+1C47", "U+1C48", "U+1C49",
     "U+1C50", "U+1C51", "U+1C52", "U+1C53", "U+1C54",
     "U+1C55", "U+1C56", "U+1C57", "U+1C58", "U+1C59",
     "U+A620", "U+A621", "U+A622", "U+A623", "U+A624",
     "U+A625", "U+A626", "U+A627", "U+A628", "U+A629",
     "U+A8D0", "U+A8D1", "U+A8D2", "U+A8D3", "U+A8D4",
     "U+A8D5", "U+A8D6", "U+A8D7", "U+A8D8", "U+A8D9",
     "U+A900", "U+A901", "U+A902", "U+A903", "U+A904",
     "U+A905", "U+A906", "U+A907", "U+A908", "U+A909",
     "U+A9D0", "U+A9D1", "U+A9D2", "U+A9D3", "U+A9D4",
     "U+A9D5", "U+A9D6", "U+A9D7", "U+A9D8", "U+A9D9",
     "U+A9F0", "U+A9F1", "U+A9F2", "U+A9F3", "U+A9F4",
     "U+A9F5", "U+A9F6", "U+A9F7", "U+A9F8", "U+A9F9",
     "U+AA50", "U+AA51", "U+AA52", "U+AA53", "U+AA54",
     "U+AA55", "U+AA56", "U+AA57", "U+AA58", "U+AA59",
     "U+ABF0", "U+ABF1", "U+ABF2", "U+ABF3", "U+ABF4",
     "U+ABF5", "U+ABF6", "U+ABF7", "U+ABF8", "U+ABF9",
     "U+FF10", "U+FF11", "U+FF12", "U+FF13", "U+FF14",
     "U+FF15", "U+FF16", "U+FF17", "U+FF18", "U+FF19",
     "U+104A0", "U+104A1", "U+104A2", "U+104A3", "U+104A4",
     "U+104A5", "U+104A6", "U+104A7", "U+104A8", "U+104A9",
     "U+10D30", "U+10D31", "U+10D32", "U+10D33", "U+10D34",
     "U+10D35", "U+10D36", "U+10D37", "U+10D38", "U+10D39",
     "U+11066", "U+11067", "U+11068", "U+11069", "U+1106A",
     "U+1106B", "U+1106C", "U+1106D", "U+1106E", "U+1106F",
     "U+110F0", "U+110F1", "U+110F2", "U+110F3", "U+110F4",
     "U+110F5", "U+110F6", "U+110F7", "U+110F8", "U+110F9",
     "U+11136", "U+11137", "U+11138", "U+11139", "U+1113A",
     "U+1113B", "U+1113C", "U+1113D", "U+1113E", "U+1113F",
     "U+111D0", "U+111D1", "U+111D2", "U+111D3", "U+111D4",
     "U+111D5", "U+111D6", "U+111D7", "U+111D8", "U+111D9",
     "U+112F0", "U+112F1", "U+112F2", "U+112F3", "U+112F4",
     "U+112F5", "U+112F6", "U+112F7", "U+112F8", "U+112F9",
     "U+11450", "U+11451", "U+11452", "U+11453", "U+11454",
     "U+11455", "U+11456", "U+11457", "U+11458", "U+11459",
     "U+114D0", "U+114D1", "U+114D2", "U+114D3", "U+114D4",
     "U+114D5", "U+114D6", "U+114D7", "U+114D8", "U+114D9",
     "U+11650", "U+11651", "U+11652", "U+11653", "U+11654",
     "U+11655", "U+11656", "U+11657", "U+11658", "U+11659",
     "U+116C0", "U+116C1", "U+116C2", "U+116C3", "U+116C4",
     "U+116C5", "U+116C6", "U+116C7", "U+116C8", "U+116C9",
     "U+11730", "U+11731", "U+11732", "U+11733", "U+11734",
     "U+11735", "U+11736", "U+11737", "U+11738", "U+11739",
     "U+118E0", "U+118E1", "U+118E2", "U+118E3", "U+118E4",
     "U+118E5", "U+118E6", "U+118E7", "U+118E8", "U+118E9",
     "U+11950", "U+11951", "U+11952", "U+11953", "U+11954",
     "U+11955", "U+11956", "U+11957", "U+11958", "U+11959",
     "U+11C50", "U+11C51", "U+11C52", "U+11C53", "U+11C54",
     "U+11C55", "U+11C56", "U+11C57", "U+11C58", "U+11C59",
     "U+11D50", "U+11D51", "U+11D52", "U+11D53", "U+11D54",
     "U+11D55", "U+11D56", "U+11D57", "U+11D58", "U+11D59",
     "U+11DA0", "U+11DA1", "U+11DA2", "U+11DA3", "U+11DA4",
     "U+11DA5", "U+11DA6", "U+11DA7", "U+11DA8", "U+11DA9",
     "U+16A60", "U+16A61", "U+16A62", "U+16A63", "U+16A64",
     "U+16A65", "U+16A66", "U+16A67", "U+16A68", "U+16A69",
     "U+16AC0", "U+16AC1", "U+16AC2", "U+16AC3", "U+16AC4",
     "U+16AC5", "U+16AC6", "U+16AC7", "U+16AC8", "U+16AC9",
     "U+16B50", "U+16B51", "U+16B52", "U+16B53", "U+16B54",
     "U+16B55", "U+16B56", "U+16B57", "U+16B58", "U+16B59",
     "U+1D7CE", "U+1D7CF", "U+1D7D0", "U+1D7D1", "U+1D7D2",
     "U+1D7D3", "U+1D7D4", "U+1D7D5", "U+1D7D6", "U+1D7D7",
     "U+1D7D8", "U+1D7D9", "U+1D7DA", "U+1D7DB", "U+1D7DC",
     "U+1D7DD", "U+1D7DE", "U+1D7DF", "U+1D7E0", "U+1D7E1",
     "U+1D7E2", "U+1D7E3", "U+1D7E4", "U+1D7E5", "U+1D7E6",
     "U+1D7E7", "U+1D7E8", "U+1D7E9", "U+1D7EA", "U+1D7EB",
     "U+1D7EC", "U+1D7ED", "U+1D7EE", "U+1D7EF", "U+1D7F0",
     "U+1D7F1", "U+1D7F2", "U+1D7F3", "U+1D7F4", "U+1D7F5",
     "U+1D7F6", "U+1D7F7", "U+1D7F8", "U+1D7F9", "U+1D7FA",
     "U+1D7FB", "U+1D7FC", "U+1D7FD", "U+1D7FE", "U+1D7FF",
     "U+1E140", "U+1E141", "U+1E142", "U+1E143", "U+1E144",
     "U+1E145", "U+1E146", "U+1E147", "U+1E148", "U+1E149",
     "U+1E2F0", "U+1E2F1", "U+1E2F2", "U+1E2F3", "U+1E2F4",
     "U+1E2F5", "U+1E2F6", "U+1E2F7", "U+1E2F8", "U+1E2F9",
     "U+1E950", "U+1E951", "U+1E952", "U+1E953", "U+1E954",
     "U+1E955", "U+1E956", "U+1E957", "U+1E958", "U+1E959",
     "U+1FBF0", "U+1FBF1", "U+1FBF2", "U+1FBF3", "U+1FBF4",
     "U+1FBF5", "U+1FBF6", "U+1FBF7", "U+1FBF8", "U+1FBF9"
    }

DecDigits == {"0", "1", "2", "3", "4", "5", "6", "7", "8", "9"}
HexDigits == DecDigits \cup {"a", "b", "c", "d", "e", "f"}
                       \cup {"A", "B", "C", "D", "E", "F"}

HexVal(c) ==
    CASE c = "0" -> 0  [] c = "1" -> 1  [] c = "2" -> 2  [] c = "3" -> 3
      [] c = "4" -> 4  [] c = "5" -> 5  [] c = "6" -> 6  [] c = "7" -> 7
      [] c = "8" -> 8  [] c = "9" -> 9
      [] c \in {"a", "A"} -> 10 [] c \in {"b", "B"} -> 11
      [] c \in {"c", "C"} -> 12 [] c \in {"d", "D"} -> 13
      [] c \in {"e", "E"} -> 14 [] c \in {"f", "F"} -> 15

\* the text without the characters of W at its start, at its end
RECURSIVE TrimLeft(_, _)
TrimLeft(s, W) == IF s # <<>> /\ Head(s) \in W THEN TrimLeft(Tail(s), W) ELSE s

RECURSIVE TrimRight(_, _)
TrimRight(s, W) ==
    IF s # <<>> /\ s[Len(s)] \in W
    THEN TrimRight(SubSeq(s, 1, Len(s) - 1), W) ELSE s

LStrip(s) == TrimLeft(s, Whitespace)

RStrip(s) == TrimRight(s, Whitespace)

\* str.strip()
Strip(s) == RStrip(LStrip(s))

\* str.startswith(p)
StartsWith(s, p) == Len(s) >= Len(p) /\ SubSeq(s, 1, Len(p)) = p

Prefix0x == <<"0", "x">>

\* h[2:]
Drop2(s) == SubSeq(s, 3, Len(s))

(***************************************************************************)
(* The state keeps a text run-length packed (<<character, count>> pairs):  *)
(* Unpack(Pack(s)) = s.  Every operator below works on the unpacked text.  *)
(***************************************************************************)
RECURSIVE PackLoop(_, _)
PackLoop(s, acc) ==
    IF s = <<>> THEN acc
    ELSE IF acc # <<>> /\ acc[Len(acc)][1] = Head(s)
    THEN PackLoop(Tail(s), [acc EXCEPT ![Len(acc)] = <<@[1], @[2] + 1>>])
    ELSE PackLoop(Tail(s), Append(acc, <<Head(s), 1>>))

Pack(s) == PackLoop(s, <<>>)

RECURSIVE Unpack(_)
Unpack(p) == IF p = <<>> THEN <<>> ELSE Rep(p[1][1], p[1][2]) \o Unpack(Tail(p))

PackAll(list) == [i \in 1..Len(list) |-> Pack(list[i])]
UnpackAll(list) == [i \in 1..Len(list) |-> Unpack(list[i])]

(***************************************************************************)
(* Values a call can produce: ok or the exception it raised.               *)
(***************************************************************************)
Ok(v) == [ok |-> TRUE, val |-> v, err |-> "none"]
Raised(e) == [ok |-> FALSE, val |-> <<>>, err |-> e]

(***************************************************************************)
(* bytes.fromhex: ASCII whitespace is skipped between bytes, every byte    *)
(* is two adjacent hex digits of either case, anything else is a           *)
(* ValueError.                                                             *)
(***************************************************************************)
\* the text from place i on is whitespace and pairs of hex digits
RECURSIVE FromHexOkFrom(_, _)
FromHexOkFrom(s, i) ==
    IF i > Len(s) THEN TRUE
    ELSE IF s[i] \in AsciiWhitespace THEN FromHexOkFrom(s, i + 1)
    ELSE /\ i + 1 <= Len(s)
         /\ s[i] \in HexDigits
         /\ s[i + 1] \in HexDigits
         /\ FromHexOkFrom(s, i + 2)

NotAsciiWhitespace(c) == c \notin AsciiWhitespace

\* the bytes of a text FromHexOkFrom accepts: its digits, two by two
FromHexBytes(s) ==
    LET d == SelectSeq(s, NotAsciiWhitespace)
    IN  [k \in 1..(Len(d) \div 2) |-> 16 * HexVal(d[2 * k - 1]) + HexVal(d[2 * k])]

FromHex(s) ==
    IF FromHexOkFrom(s, 1) THEN Ok(FromHexBytes(s)) ELSE Raised("ValueError")

(***************************************************************************)
(* Python integers are unbounded: an integer is its sign and the base-256  *)
(* digits of its magnitude, most significant first and without leading     *)
(* zeros.  int.to_bytes(w, "big") (unsigned) gives the digits padded to w  *)
(* bytes; OverflowError when the value is negative or does not fit.        *)
(***************************************************************************)
RECURSIVE Digits(_)
Digits(n) == IF n = 0 THEN <<>> ELSE Append(Digits(n \div 256), n % 256)

\* the Python integer of a small number
Num(n) == [neg |-> n < 0, mag |-> Digits(IF n < 0 THEN -n ELSE n)]

\* a conversion that keeps the low w bytes of the magnitude
ToBytesTruncating(v, w) ==
    LET padded == [i \in 1..w |-> 0] \o v.mag
    IN  Ok(SubSeq(padded, Len(padded) - w + 1, Len(padded)))

ToBytes(v, w) ==
    IF v.neg \/ Len(v.mag) > w THEN Raised("OverflowError")
    ELSE Ok([i \in 1..(w - Len(v.mag)) |-> 0] \o v.mag)

\* Web3.keccak(payload): uninterpreted, injective on the preimage
Keccak(payload) == [keccak256 |-> payload]

\* a derivation that leaves the status byte out of the preimage
PreimageNoStatus(chain_id, tx_hash_hex, block_number, status, gas_used) ==
    LET c == ToBytes(chain_id, WordBytes)
        h == FromHex(Drop2(tx_hash_hex))
        b == ToBytes(block_number, WordBytes)
        g == ToBytes(gas_used, WordBytes)
    IN  IF ~c.ok THEN c
        ELSE IF ~h.ok THEN h
        ELSE IF ~b.ok THEN b
        ELSE IF ~g.ok THEN g
        ELSE Ok(c.val \o h.val \o b.val \o g.val)

(***************************************************************************)
(* The preimage chainId[8] || txHash[32] || blockNumber[8] || status[1]    *)
(* || gasUsed[8]; the first failing conversion raises.                     *)
(***************************************************************************)
Preimage(chain_id, tx_hash_hex, block_number, status, gas_used) ==
    LET c == ToBytes(chain_id, WordBytes)
        h == FromHex(Drop2(tx_hash_hex))
        b == ToBytes(block_number, WordBytes)
        s == ToBytes(status, StatusBytes)
        g == ToBytes(gas_used, WordBytes)
    IN  IF ~c.ok THEN c
        ELSE IF ~h.ok THEN h
        ELSE IF ~b.ok THEN b
        ELSE IF ~s.ok THEN s
        ELSE IF ~g.ok THEN g
        ELSE Ok(c.val \o h.val \o b.val \o s.val \o g.val)

\* txbatch.build_commitment
build_commitment(chain_id, tx_hash_hex, block_number, status, gas_used) ==
    LET p == Preimage(chain_id, tx_hash_hex, block_number, status, gas_used)
    IN  IF p.ok THEN Ok(Keccak(p.val)) ELSE p


(***************************************************************************)
(* Hash validation.                                                        *)
(***************************************************************************)
\* Web3.is_hex (eth_utils): the whole text matches (0[xX])?[0-9a-fA-F]*
\* and is not empty
IsHex(s) ==
    LET body == IF Len(s) >= 2 /\ s[1] = "0" /\ s[2] \in {"x", "X"}
                THEN Drop2(s) ELSE s
    IN  s # <<>> /\ \A i \in 1..Len(body) : body[i] \in HexDigits

NoneStr == [ok |-> FALSE, val |-> <<>>, err |-> "None"]

\* txbatch.parse_tx_hash: the normalized hash, or None
parse_tx_hash(raw) ==
    LET h0 == Strip(raw)
        h  == IF StartsWith(h0, Prefix0x) THEN h0 ELSE Prefix0x \o h0
    IN  IF h0 = <<>> THEN NoneStr
        ELSE IF Len(h) # HashStrLen \/ ~IsHex(h) THEN NoneStr
        ELSE Ok(h)

(***************************************************************************)
(* int(text, 16) raises no ValueError: surrounding whitespace, one sign,   *)
(* an optional 0x/0X prefix, then digits with single underscores between   *)
(* them (one underscore may follow the prefix); a digit is a hex digit or  *)
(* a decimal digit from outside ASCII.                                     *)
(***************************************************************************)
IntBase16Parses(text) ==
    LET t == TrimRight(TrimLeft(text, IntWhitespace), IntWhitespace)
        u == IF t # <<>> /\ Head(t) \in {"+", "-"} THEN Tail(t) ELSE t
        prefixed == /\ Len(u) >= 2
                    /\ u[1] \in {"0"} \cup UnicodeZeros
                    /\ u[2] \in {"x", "X"}
        v == IF prefixed THEN Drop2(u) ELSE u
        d == IF prefixed /\ v # <<>> /\ Head(v) = "_" THEN Tail(v) ELSE v
    IN  /\ d # <<>>
        /\ \A i \in 1..Len(d) :
              d[i] \in HexDigits \cup UnicodeDecDigits \cup {"_"}
        /\ d[1] # "_"
        /\ d[Len(d)] # "_"
        /\ \A i \in 1..(Len(d) - 1) : ~(d[i] = "_" /\ d[i + 1] = "_")

\* tx_batch_auditor.validate_tx_hash
validate_tx_hash(h) ==
    /\ StartsWith(h, Prefix0x)
    /\ Len(h) = HashStrLen
    /\ IntBase16Parses(Drop2(h))

\* the shape the specification asks for: 0x + 64 hex characters
WellFormed(h) ==
    /\ Len(h) = HashStrLen
    /\ StartsWith(h, Prefix0x)
    /\ \A i \in 3..Len(h) : h[i] \in HexDigits

\* a loader that keeps every occurrence
NoDedup(hashes) == hashes

(***************************************************************************)
(* De-duplication.                                                         *)
(***************************************************************************)
\* the loop of load_hashes: seen = set(); unique = []
RECURSIVE DedupLoop(_, _, _)
DedupLoop(hashes, seen, unique) ==
    IF hashes = <<>> THEN unique
    ELSE LET h == Head(hashes)
         IN  IF h \notin seen
             THEN DedupLoop(Tail(hashes), seen \cup {h}, Append(unique, h))
             ELSE DedupLoop(Tail(hashes), seen, unique)

Dedup(hashes) == DedupLoop(hashes, {}, <<>>)

\* list(dict.fromkeys(hashes)): a key keeps the place of its first insertion
RECURSIVE DictFromKeys(_)
DictFromKeys(hashes) ==
    IF hashes = <<>> THEN <<>>
    ELSE LET init == DictFromKeys(SubSeq(hashes, 1, Len(hashes) - 1))
             k    == hashes[Len(hashes)]
         IN  IF \E i \in 1..Len(init) : init[i] = k THEN init
             ELSE Append(init, k)

\* the lines a file contributes in txbatch.load_hashes
RECURSIVE FileLines(_)
FileLines(lines) ==
    IF lines = <<>> THEN <<>>
    ELSE LET line == Strip(Head(lines))
         IN  IF line = <<>> \/ StartsWith(line, <<"#">>)
             THEN FileLines(Tail(lines))
             ELSE <<line>> \o FileLines(Tail(lines))

\* txbatch.load_hashes: --tx values, then the file's lines, de-duplicated;
\* a file that cannot be opened ends the process (sys.exit(1))
load_hashes(a) ==
    IF a.file_given /\ a.file_error THEN Raised("SystemExit")
    ELSE Ok(Dedup(a.tx \o (IF a.file_given THEN FileLines(a.file) ELSE <<>>)))

\* [h.strip() for h in hashes if h.strip()]
RECURSIVE StripAll(_)
StripAll(hashes) ==
    IF hashes = <<>> THEN <<>>
    ELSE LET s == Strip(Head(hashes))
         IN  IF s = <<>> THEN StripAll(Tail(hashes))
             ELSE <<s>> \o StripAll(Tail(hashes))

\* tx_batch_auditor.main: gather (the file's lines if a file is given, the
\* positional hashes otherwise), strip, drop the empty, de-duplicate; a
\* file that cannot be read ends the process (sys.exit(1))
gather_hashes(a) ==
    IF a.file_given /\ a.file_error THEN Raised("SystemExit")
    ELSE Ok(DictFromKeys(StripAll(IF a.file_given THEN StripAll(a.file)
                                  ELSE a.tx)))

\* a cap that keeps the last max hashes
ApplyCapLast(hashes, max) ==
    IF max > 0 /\ Len(hashes) > max
    THEN SubSeq(hashes, Len(hashes) - max + 1, Len(hashes))
    ELSE hashes

\* hashes[: args.max] when args.max > 0 and len(hashes) > args.max
ApplyCap(hashes, max) ==
    IF max > 0 /\ Len(hashes) > max THEN SubSeq(hashes, 1, max) ELSE hashes

\* txbatch.main: normalize and filter
RECURSIVE NormalizeAll(_)
NormalizeAll(raws) ==
    IF raws = <<>> THEN [tx_hashes |-> <<>>, invalid_count |-> 0]
    ELSE LET h    == parse_tx_hash(Head(raws))
             rest == NormalizeAll(Tail(raws))
         IN  IF ~h.ok
             THEN [rest EXCEPT !.invalid_count = @ + 1]
             ELSE [rest EXCEPT !.tx_hashes = <<h.val>> \o @]

(***************************************************************************)
(* Input strings the model starts the programs with.                       *)
(***************************************************************************)
HexLen == HashStrLen - 2
H1 == Prefix0x \o Rep("a", HexLen)
H2 == Prefix0x \o Rep("b", HexLen)
\* H1 in upper case: another text of the same 32 bytes
H1Upper == Prefix0x \o Rep("A", HexLen)
\* H1 without its prefix
H1Bare == Rep("a", HexLen)
\* H1 after a blank
H1Padded == <<" ">> \o H1
\* "0xnotahash"
HNotAHash == <<"0", "x", "n", "o", "t", "a", "h", "a", "s", "h">>
\* 0x, a sign, 63 hex digits: 66 characters that int(.., 16) accepts
HSigned == Prefix0x \o <<"+">> \o Rep("a", HexLen - 1)

InputStrings == {H1, H2, H1Bare, H1Padded, HNotAHash, HSigned}

\* a comment line of a hash file
HComment == <<"#", " ", "n", "o", "t", "e">>
\* H1 after a vertical tab
H1Tabbed == <<"">> \o H1
\* the files the programs are started with, as their lines
FileInputs ==
    {<<>>, <<HComment, H1>>, <<H2, H1Tabbed>>, <<H1, H1, H2>>, <<H1, H2, H1>>}
\* the --tx values (txbatch) or positional hashes (auditor) given with a file
TxWithFile == {<<>>, <<H1>>}


(***************************************************************************)
(* State.                                                                  *)
(***************************************************************************)
VARIABLES
    prog,               \* the entry point that runs: "txbatch", "auditor"
    pc,                 \* where it is
    halt,               \* why it ended ("" while it runs)
    exit_code,          \* the process exit status (-1 while it runs)
    args,               \* the command line: tx, file_given, file_error, file, max
    rpc_url_2,          \* whether a secondary provider is configured
    chain_of,           \* the chain id each provider reports
    hashes_raw,         \* txbatch: load_hashes(args) (packed)
    tx_hashes,          \* txbatch: tx_hashes; auditor: hashes (packed)
    invalid_count,
    primary_chain_id,
    secondary_chain_id,
    success_count,
    fail_count,
    not_found_count,
    mismatch_count,
    idx,                \* the place in tx_hashes of the hash in progress
    call,               \* the provider call in progress (retry executor frame)
    rcpt,               \* fetch_bundle's receipt
    bundle_primary,
    bundle_secondary,
    match,
    cross_note,
    printed,            \* txbatch: the transaction and kind of each row written
    result,             \* auditor: audit_tx's record in progress
    results,            \* auditor: the result list (per record: which parts it has)
    fetched,            \* <<provider, place in tx_hashes>>: receipt fetches issued
    rx,                 \* the retry executor run on its own
    cm                  \* the commitment derivation run on its own

mainVars ==
    <<prog, pc, halt, exit_code, args, rpc_url_2, chain_of, hashes_raw,
      tx_hashes, invalid_count, primary_chain_id, secondary_chain_id,
      success_count, fail_count, not_found_count, mismatch_count, idx, call,
      rcpt, bundle_primary, bundle_secondary, match, cross_note, printed,
      result, results, fetched>>

vars == <<mainVars, rx, cm>>

(***************************************************************************)
(* Providers.                                                              *)
(***************************************************************************)
Receipt(b, s, g) == [none |-> FALSE, blockNumber |-> b, status |-> s, gasUsed |-> g]
NoReceipt == [none |-> TRUE, blockNumber |-> 0, status |-> 0, gasUsed |-> 0]

\* the receipts a provider may report for a hash: the primary reports the
\* scenario's receipt or a failed execution; the secondary may also differ
\* from the scenario's receipt in the gas used or in the block
Receipts(p) ==
    IF p = 1
    THEN { Receipt(100, 1, 21000), Receipt(100, 0, 21000) }
    ELSE { Receipt(100, 1, 21000), Receipt(100, 0, 21000),
           Receipt(100, 1, 21001), Receipt(101, 1, 21000) }

TxValue == [from |-> "sender", to |-> "recipient"]

ChainPairs == {<<1, 1>>, <<1, 137>>}

\* what one attempt of a provider call can do
Outcomes(op, p) ==
    CASE op = "receipt" ->
            {Ok(r) : r \in Receipts(p) \cup {NoReceipt}}
            \cup {Raised("TransactionNotFound"), Raised("ConnectionError"),
                  Raised("KeyboardInterrupt")}
      [] op = "tx" ->
            {Ok(TxValue), Raised("TransactionNotFound"),
             Raised("ConnectionError"), Raised("KeyboardInterrupt")}
      [] op = "chain_id" ->
            {Ok(chain_of[p]), Raised("ConnectionError"),
             Raised("KeyboardInterrupt")}

(***************************************************************************)
(* The retry executors: what one pass of the for loop does with the        *)
(* outcome of its attempt.                                                 *)
(***************************************************************************)
\* an executor whose handler catches everything, the interrupt included
safe_rpc_call_catch_all(attempt, retries, outcome) ==
    IF outcome.ok THEN [ctl |-> "return", err |-> "none", slept |-> FALSE]
    ELSE IF attempt = retries
    THEN [ctl |-> "raise", err |-> outcome.err, slept |-> FALSE]
    ELSE [ctl |-> "retry", err |-> outcome.err, slept |-> TRUE]

\* txbatch.safe_rpc_call
safe_rpc_call(attempt, retries, outcome) ==
    IF outcome.ok THEN [ctl |-> "return", err |-> "none", slept |-> FALSE]
    ELSE IF outcome.err = "KeyboardInterrupt"
    THEN [ctl |-> "raise", err |-> outcome.err, slept |-> FALSE]
    ELSE IF attempt = retries
    THEN [ctl |-> "raise", err |-> outcome.err, slept |-> FALSE]
    ELSE [ctl |-> "retry", err |-> outcome.err, slept |-> TRUE]

\* txapp.safe_rpc_call: every Exception is printed and slept on; after the
\* loop the process exits with status 2
txapp_safe_rpc_call(attempt, retries, outcome) ==
    IF outcome.ok THEN [ctl |-> "return", err |-> "none", slept |-> FALSE]
    ELSE IF outcome.err = "KeyboardInterrupt"
    THEN [ctl |-> "raise", err |-> outcome.err, slept |-> FALSE]
    ELSE IF attempt = retries
    THEN [ctl |-> "exit", err |-> "SystemExit", slept |-> TRUE]
    ELSE [ctl |-> "retry", err |-> outcome.err, slept |-> TRUE]

\* calls: the provider calls fetch_bundle (or main, for the chain id at
\* connection) has completed before the attempt under way
NoCall == [p |-> 0, op |-> "none", attempt |-> 0, last |-> "none", sleeps |-> 0,
           calls |-> 0]
StartCall(p, op) == [p |-> p, op |-> op, attempt |-> 1, last |-> "none",
                     sleeps |-> 0, calls |-> 0]
\* the next safe_rpc_call of the same fetch_bundle
FollowCall(c, op) == [StartCall(c.p, op) EXCEPT !.calls = c.calls + 1]

(***************************************************************************)
(* Bundles.                                                                *)
(***************************************************************************)
NoBundle ==
    [present |-> FALSE, chain_id |-> 0, block_number |-> 0, status |-> 0,
     gas_used |-> 0, commitment |-> Keccak(<<>>)]

\* txbatch.fetch_bundle from the receipt on: the bundle, or what
\* build_commitment raised
MakeBundle(chain_id, txh, r) ==
    LET c == build_commitment(Num(chain_id), txh, Num(r.blockNumber),
                              Num(r.status), Num(r.gasUsed))
    IN  IF r.none THEN Raised("RuntimeError")
        ELSE IF c.ok
        THEN Ok([present |-> TRUE, chain_id |-> chain_id,
                 block_number |-> r.blockNumber, status |-> r.status,
                 gas_used |-> r.gasUsed, commitment |-> c.val])
        ELSE c

\* a cross-check that looks at the status only
CrossCheckStatusOnly(bp, bs) == bp.status = bs.status

\* txbatch.main: the cross-check of the two bundles
CrossCheck(bp, bs) ==
    LET same_chain  == bp.chain_id = bs.chain_id
        same_block  == bp.block_number = bs.block_number
        same_status == bp.status = bs.status
        same_gas    == bp.gas_used = bs.gas_used
        same_commit == bp.commitment = bs.commitment
    IN  same_chain /\ same_block /\ same_status /\ same_gas /\ same_commit

\* the --max values the auditor is started with (0: no limit)
Caps == {0, 1, 2}

BoundedSeq(S, n) == UNION {[1..k -> S] : k \in 0..n}

NoResult ==
    [txHash |-> <<>>, primary |-> NoBundle, secondary |-> NoBundle,
     match |-> "None", errorPrimary |-> "None", errorSecondary |-> "None"]

\* the retry executor and the commitment derivation are not running
RxIdle == [impl |-> "none", retries |-> 0, attempt |-> 0, calls |-> 0,
           sleeps |-> 0, state |-> "idle", result |-> 0, raised |-> "none",
           last |-> "none"]
CmIdle == [state |-> "idle"]

(***************************************************************************)
(* Start of a batch run.                                                   *)
(***************************************************************************)
InitMain ==
    /\ prog \in {"txbatch", "auditor"}
    /\ \/ \E list \in BoundedSeq(InputStrings, MaxInputs) :
             \E m \in IF prog = "txbatch" THEN {0} ELSE Caps :
                 args = [tx |-> PackAll(list), file_given |-> FALSE,
                         file_error |-> FALSE, file |-> <<>>, max |-> m]
       \/ \E list \in TxWithFile :
             \E m \in IF prog = "txbatch" THEN {0} ELSE Caps :
                 \/ args = [tx |-> PackAll(list), file_given |-> TRUE,
                            file_error |-> TRUE, file |-> <<>>, max |-> m]
                 \/ \E f \in FileInputs :
                       args = [tx |-> PackAll(list), file_given |-> TRUE,
                               file_error |-> FALSE, file |-> PackAll(f),
                               max |-> m]
    /\ rpc_url_2 \in BOOLEAN
    /\ chain_of \in (IF rpc_url_2 THEN ChainPairs ELSE {<<1, 1>>})
    /\ pc = "load"
    /\ halt = ""
    /\ exit_code = -1
    /\ hashes_raw = <<>>
    /\ tx_hashes = <<>>
    /\ invalid_count = 0
    /\ primary_chain_id = 0
    /\ secondary_chain_id = 0
    /\ success_count = 0
    /\ fail_count = 0
    /\ not_found_count = 0
    /\ mismatch_count = 0
    /\ idx = 1
    /\ call = NoCall
    /\ rcpt = NoReceipt
    /\ bundle_primary = NoBundle
    /\ bundle_secondary = NoBundle
    /\ match = TRUE
    /\ cross_note = "-"
    /\ printed = <<>>
    /\ result = NoResult
    /\ results = <<>>
    /\ fetched = {}

\* the command line and the lists, as texts
Args == [args EXCEPT !.tx = UnpackAll(@), !.file = UnpackAll(@)]
HashesRaw == UnpackAll(hashes_raw)
TxHashes == UnpackAll(tx_hashes)
TxHash(i) == Unpack(tx_hashes[i])

\* the process ends
Halt(why, code) ==
    /\ pc' = "done"
    /\ halt' = why
    /\ exit_code' = code


cfgVars   == <<prog, args, rpc_url_2, chain_of>>
inputVars == <<hashes_raw, tx_hashes, invalid_count>>
chainVars == <<primary_chain_id, secondary_chain_id>>
countVars == <<success_count, fail_count, not_found_count, mismatch_count>>
fetchVars == <<rcpt, bundle_primary, bundle_secondary, match, cross_note>>
auditVars == <<result, results>>
endVars   == <<halt, exit_code>>
soloVars  == <<rx, cm>>

(***************************************************************************)
(* txbatch.main                                                            *)
(***************************************************************************)
\* a row names its transaction by the place of its hash in tx_hashes
Row(at, kind, err) == [at |-> at, kind |-> kind, err |-> err]

\* hashes_raw = load_hashes(args); nothing to do without hashes
TB_LoadHashes ==
    /\ prog = "txbatch" /\ pc = "load"
    /\ \E l \in {load_hashes(Args)} :
          IF ~l.ok
          THEN Halt("file-error", 1) /\ UNCHANGED hashes_raw
          ELSE /\ hashes_raw' = PackAll(l.val)
               /\ IF l.val = <<>>
                  THEN Halt("no-hashes", 1)
                  ELSE pc' = "parse" /\ UNCHANGED endVars
    /\ UNCHANGED <<cfgVars, tx_hashes, invalid_count, chainVars, countVars, idx,
                   call, fetchVars, printed, auditVars, fetched, soloVars>>

\* normalize and filter hashes
TB_Normalize ==
    /\ prog = "txbatch" /\ pc = "parse"
    /\ LET n == NormalizeAll(HashesRaw)
       IN  /\ tx_hashes' = PackAll(n.tx_hashes)
           /\ invalid_count' = n.invalid_count
    /\ IF tx_hashes' = <<>>
       THEN Halt("no-valid-hashes", 1)
       ELSE pc' = "connect1" /\ UNCHANGED endVars
    /\ UNCHANGED <<cfgVars, hashes_raw, chainVars, countVars, idx, call,
                   fetchVars, printed, auditVars, fetched, soloVars>>

\* w3 = w3_connect(RPC_URL), then the primary chain id through the executor
TB_ConnectPrimary ==
    /\ prog = "txbatch" /\ pc = "connect1"
    /\ \E connected \in BOOLEAN :
          IF connected
          THEN pc' = "chain1" /\ call' = StartCall(1, "chain_id") /\ UNCHANGED endVars
          ELSE Halt("connect-failed", 1) /\ UNCHANGED call
    /\ UNCHANGED <<cfgVars, inputVars, chainVars, countVars, idx, fetchVars,
                   printed, auditVars, fetched, soloVars>>

\* w3b = w3_connect(RPC_URL_2), then the secondary chain id
TB_ConnectSecondary ==
    /\ prog = "txbatch" /\ pc = "connect2"
    /\ \E connected \in BOOLEAN :
          IF connected
          THEN pc' = "chain2" /\ call' = StartCall(2, "chain_id") /\ UNCHANGED endVars
          ELSE Halt("connect-failed", 1) /\ UNCHANGED call
    /\ UNCHANGED <<cfgVars, inputVars, chainVars, countVars, idx, fetchVars,
                   printed, auditVars, fetched, soloVars>>

TB_InCall == prog = "txbatch" /\ pc \in {"chain1", "chain2", "fetch"}

TB_Step(o) == safe_rpc_call(call.attempt, DefaultRetries, o)

\* an attempt failed and the executor sleeps before the next one
TB_Retry ==
    /\ TB_InCall
    /\ \E o \in Outcomes(call.op, call.p) :
          /\ TB_Step(o).ctl = "retry"
          /\ call' = [call EXCEPT !.attempt = @ + 1, !.last = o.err,
                                  !.sleeps = @ + 1, !.calls = @ + 1]
    /\ UNCHANGED <<cfgVars, pc, endVars, inputVars, chainVars, countVars, idx,
                   fetchVars, printed, auditVars, fetched, soloVars>>

\* KeyboardInterrupt leaves the executor and main: no handler in txbatch
TB_Interrupt ==
    /\ TB_InCall
    /\ \E o \in Outcomes(call.op, call.p) :
          /\ TB_Step(o).ctl = "raise"
          /\ TB_Step(o).err = "KeyboardInterrupt"
    /\ Halt("KeyboardInterrupt", 130)
    /\ call' = NoCall
    /\ rcpt' = NoReceipt
    /\ bundle_primary' = NoBundle
    /\ bundle_secondary' = NoBundle
    /\ match' = TRUE
    /\ cross_note' = "-"
    /\ UNCHANGED <<cfgVars, inputVars, chainVars, countVars, idx, printed,
                   auditVars, fetched, soloVars>>

\* the chain id of a provider arrived, before the loop
TB_ChainIdReturn ==
    /\ prog = "txbatch" /\ pc \in {"chain1", "chain2"}
    /\ \E o \in Outcomes(call.op, call.p) :
          /\ TB_Step(o).ctl = "return"
          /\ IF pc = "chain1"
             THEN /\ primary_chain_id' = o.val
                  /\ UNCHANGED secondary_chain_id
                  /\ pc' = IF rpc_url_2 THEN "connect2" ELSE "loop"
             ELSE /\ secondary_chain_id' = o.val
                  /\ UNCHANGED primary_chain_id
                  /\ pc' = "loop"
    /\ call' = NoCall
    /\ UNCHANGED <<cfgVars, endVars, inputVars, countVars, idx, fetchVars,
                   printed, auditVars, fetched, soloVars>>

\* the chain id call failed on its last attempt: main does not catch it
TB_ChainIdRaise ==
    /\ prog = "txbatch" /\ pc \in {"chain1", "chain2"}
    /\ \E o \in Outcomes(call.op, call.p) :
          /\ TB_Step(o).ctl = "raise"
          /\ TB_Step(o).err # "KeyboardInterrupt"
    /\ call' = NoCall
    /\ Halt("rpc-error", 1)
    /\ UNCHANGED <<cfgVars, inputVars, chainVars, countVars, idx, fetchVars,
                   printed, auditVars, fetched, soloVars>>

\* for txh in tx_hashes: fetch_bundle(w3, txh) starts with the receipt
TB_LoopNext ==
    /\ prog = "txbatch" /\ pc = "loop"
    /\ IF idx <= Len(tx_hashes)
       THEN /\ pc' = "fetch"
            /\ call' = StartCall(1, "receipt")
            /\ fetched' = fetched \cup {<<1, idx>>}
       ELSE /\ pc' = "summary"
            /\ UNCHANGED <<call, fetched>>
    /\ UNCHANGED <<cfgVars, endVars, inputVars, chainVars, countVars, idx,
                   fetchVars, printed, auditVars, soloVars>>

\* a loop that moves on from a failed primary fetch without counting it
TB_FetchRaisedUncounted(err) ==
    IF call.p = 1
    THEN /\ printed' = Append(printed, Row(idx, IF err = "TransactionNotFound"
                                                THEN "not-found" ELSE "error",
                                                err))
         /\ idx' = idx + 1
         /\ pc' = "loop"
         /\ rcpt' = NoReceipt
         /\ UNCHANGED <<countVars, bundle_primary, bundle_secondary, match,
                        cross_note>>
    ELSE /\ match' = FALSE
         /\ cross_note' = IF err = "TransactionNotFound"
                          THEN "not-found on secondary"
                          ELSE "error on secondary"
         /\ pc' = "row"
         /\ rcpt' = NoReceipt
         /\ UNCHANGED <<countVars, idx, printed, bundle_primary, bundle_secondary>>

\* fetch_bundle raised err to main
TB_FetchRaised(err) ==
    IF call.p = 1
    THEN /\ IF err = "TransactionNotFound"
            THEN /\ not_found_count' = not_found_count + 1
                 /\ printed' = Append(printed, Row(idx, "not-found", err))
                 /\ UNCHANGED fail_count
            ELSE /\ fail_count' = fail_count + 1
                 /\ printed' = Append(printed, Row(idx, "error", err))
                 /\ UNCHANGED not_found_count
         /\ idx' = idx + 1
         /\ pc' = "loop"
         /\ rcpt' = NoReceipt
         /\ UNCHANGED <<success_count, mismatch_count, bundle_primary,
                        bundle_secondary, match, cross_note>>
    ELSE /\ match' = FALSE
         /\ cross_note' = IF err = "TransactionNotFound"
                          THEN "not-found on secondary"
                          ELSE "error on secondary"
         /\ pc' = "row"
         /\ rcpt' = NoReceipt
         /\ UNCHANGED <<countVars, idx, printed, bundle_primary, bundle_secondary>>

\* the executor gave up inside fetch_bundle
TB_FetchRaise ==
    /\ prog = "txbatch" /\ pc = "fetch"
    /\ \E o \in Outcomes(call.op, call.p) :
          /\ TB_Step(o).ctl = "raise"
          /\ TB_Step(o).err # "KeyboardInterrupt"
          /\ TB_FetchRaised(TB_Step(o).err)
    /\ call' = NoCall
    /\ UNCHANGED <<cfgVars, endVars, inputVars, chainVars, auditVars, fetched,
                   soloVars>>

\* rcpt = safe_rpc_call(get_transaction_receipt); the transaction is next
TB_ReceiptReturn ==
    /\ prog = "txbatch" /\ pc = "fetch" /\ call.op = "receipt"
    /\ \E o \in Outcomes(call.op, call.p) :
          /\ TB_Step(o).ctl = "return"
          /\ rcpt' = o.val
    /\ call' = FollowCall(call, "tx")
    /\ UNCHANGED <<cfgVars, pc, endVars, inputVars, chainVars, countVars, idx,
                   bundle_primary, bundle_secondary, match, cross_note, printed,
                   auditVars, fetched, soloVars>>

\* a fetch_bundle that asks for the chain id without looking at the receipt
TB_TxReturnUnchecked ==
    /\ prog = "txbatch" /\ pc = "fetch" /\ call.op = "tx"
    /\ \E o \in Outcomes(call.op, call.p) : TB_Step(o).ctl = "return"
    /\ call' = FollowCall(call, "chain_id")
    /\ UNCHANGED <<pc, countVars, idx, fetchVars, printed>>
    /\ UNCHANGED <<cfgVars, endVars, inputVars, chainVars, auditVars, fetched,
                   soloVars>>

\* tx = safe_rpc_call(get_transaction); a None receipt is a RuntimeError,
\* otherwise the chain id is next
TB_TxReturn ==
    /\ prog = "txbatch" /\ pc = "fetch" /\ call.op = "tx"
    /\ \E o \in Outcomes(call.op, call.p) : TB_Step(o).ctl = "return"
    /\ IF rcpt.none
       THEN /\ TB_FetchRaised("RuntimeError")
            /\ call' = NoCall
       ELSE /\ call' = FollowCall(call, "chain_id")
            /\ UNCHANGED <<pc, countVars, idx, fetchVars, printed>>
    /\ UNCHANGED <<cfgVars, endVars, inputVars, chainVars, auditVars, fetched,
                   soloVars>>

\* chain_id arrived: the commitment and the bundle; after the primary's the
\* secondary is fetched and after the secondary's the two are cross-checked
TB_ChainReturn ==
    /\ prog = "txbatch" /\ pc = "fetch" /\ call.op = "chain_id"
    /\ \E o \in Outcomes(call.op, call.p) :
          /\ TB_Step(o).ctl = "return"
          /\ \E b \in {MakeBundle(o.val, TxHash(idx), rcpt)} :
                 IF ~b.ok
                 THEN /\ TB_FetchRaised(b.err)
                      /\ call' = NoCall
                      /\ UNCHANGED fetched
                 ELSE IF call.p = 1
                 THEN /\ bundle_primary' = b.val
                      /\ match' = TRUE
                      /\ cross_note' = "-"
                      /\ rcpt' = NoReceipt
                      /\ IF rpc_url_2
                         THEN /\ call' = StartCall(2, "receipt")
                              /\ fetched' = fetched \cup {<<2, idx>>}
                              /\ UNCHANGED pc
                         ELSE /\ call' = NoCall
                              /\ pc' = "row"
                              /\ UNCHANGED fetched
                      /\ UNCHANGED <<countVars, idx, printed, bundle_secondary>>
                 ELSE /\ bundle_secondary' = b.val
                      /\ match' = CrossCheck(bundle_primary, b.val)
                      /\ cross_note' = IF CrossCheck(bundle_primary, b.val)
                                       THEN "ok" ELSE "mismatch"
                      /\ rcpt' = NoReceipt
                      /\ call' = NoCall
                      /\ pc' = "row"
                      /\ UNCHANGED <<countVars, idx, printed, bundle_primary, fetched>>
    /\ UNCHANGED <<cfgVars, endVars, inputVars, chainVars, auditVars, soloVars>>

\* the row of the transaction and its counts
TB_Row ==
    /\ prog = "txbatch" /\ pc = "row"
    /\ printed' = Append(printed, Row(idx, "row", "none"))
    /\ IF bundle_primary.status = 1
       THEN success_count' = success_count + 1 /\ UNCHANGED fail_count
       ELSE fail_count' = fail_count + 1 /\ UNCHANGED success_count
    /\ IF ~match /\ rpc_url_2
       THEN mismatch_count' = mismatch_count + 1
       ELSE UNCHANGED mismatch_count
    /\ idx' = idx + 1
    /\ pc' = "loop"
    /\ bundle_primary' = NoBundle
    /\ bundle_secondary' = NoBundle
    /\ match' = TRUE
    /\ cross_note' = "-"
    /\ UNCHANGED <<cfgVars, endVars, inputVars, chainVars, not_found_count, call,
                   rcpt, auditVars, fetched, soloVars>>

\* the exit status of txbatch.main
ExitStatus(mismatches, fails, not_founds, invalids, w3b) ==
    IF mismatches > 0 THEN (IF w3b THEN 2 ELSE 0)
    ELSE IF fails > 0 \/ not_founds > 0 \/ invalids > 0 THEN 1
    ELSE 0

\* the summary and the return value
TB_Summary ==
    /\ prog = "txbatch" /\ pc = "summary"
    /\ Halt("finished",
            ExitStatus(mismatch_count, fail_count, not_found_count,
                       invalid_count, rpc_url_2))
    /\ UNCHANGED <<cfgVars, inputVars, chainVars, countVars, idx, call,
                   fetchVars, printed, auditVars, fetched, soloVars>>

TxbatchNext ==
    \/ TB_LoadHashes
    \/ TB_Normalize
    \/ TB_ConnectPrimary
    \/ TB_ConnectSecondary
    \/ TB_Retry
    \/ TB_Interrupt
    \/ TB_ChainIdReturn
    \/ TB_ChainIdRaise
    \/ TB_LoopNext
    \/ TB_FetchRaise
    \/ TB_ReceiptReturn
    \/ TB_TxReturn
    \/ TB_ChainReturn
    \/ TB_Row
    \/ TB_Summary


(***************************************************************************)
(* tx_batch_auditor                                                        *)
(***************************************************************************)
\* the encoding of tx_batch_auditor.build_commitment
AuditorPreimage(chain_id, tx_hash, block_number, status, gas_used) ==
    LET chain_bytes  == ToBytes(chain_id, WordBytes)
        tx_bytes     == FromHex(Drop2(tx_hash))
        block_bytes  == ToBytes(block_number, WordBytes)
        status_bytes == ToBytes(status, StatusBytes)
        gas_bytes    == ToBytes(gas_used, WordBytes)
    IN  IF ~chain_bytes.ok THEN chain_bytes
        ELSE IF ~tx_bytes.ok THEN tx_bytes
        ELSE IF ~block_bytes.ok THEN block_bytes
        ELSE IF ~status_bytes.ok THEN status_bytes
        ELSE IF ~gas_bytes.ok THEN gas_bytes
        ELSE Ok(chain_bytes.val \o tx_bytes.val \o block_bytes.val
                \o status_bytes.val \o gas_bytes.val)

\* tx_batch_auditor.build_commitment(w3, tx_hash): the receipt and the chain
\* id are asked of the provider directly, once each; o_r and o_c are what
\* the two calls do
auditor_build_commitment(o_r, o_c, tx_hash) ==
    IF ~o_r.ok THEN Raised(o_r.err)
    ELSE IF ~o_c.ok THEN Raised(o_c.err)
    ELSE IF o_r.val.none THEN Raised("AttributeError")
    ELSE LET r == o_r.val
             p == AuditorPreimage(Num(o_c.val), tx_hash, Num(r.blockNumber),
                                  Num(r.status), Num(r.gasUsed))
         IN  IF ~p.ok THEN p
             ELSE Ok([present |-> TRUE, chain_id |-> o_c.val,
                      block_number |-> r.blockNumber, status |-> r.status,
                      gas_used |-> r.gasUsed, commitment |-> Keccak(p.val)])

\* an audit_tx that gives a verdict as soon as the primary has a bundle
CompareResultPrimaryOnly(res) ==
    IF res.primary.present
    THEN IF res.primary.commitment = res.secondary.commitment
         THEN "True" ELSE "False"
    ELSE "None"

\* audit_tx: compare if both succeeded
CompareResult(res) ==
    IF res.primary.present /\ res.secondary.present
    THEN IF res.primary.commitment = res.secondary.commitment
         THEN "True" ELSE "False"
    ELSE "None"

\* str(e) of an exception without a message
EmptyMessage == ""

\* the exceptions a provider raises, with or without a message
ProviderErrors == {"TransactionNotFound", "ConnectionError"}

\* str(e): the model names a message by the exception's type; a provider's
\* exception may come without a message
ErrorTexts(err) ==
    IF err \in ProviderErrors THEN {err, EmptyMessage} ELSE {err}

\* what is kept of an error text: None, the empty text, or that there is
\* a message
ErrorKind(text) == IF text \in {"None", EmptyMessage} THEN text ELSE "message"

\* what the model keeps of a record once it is in the result list: the place
\* of its hash in hashes and which parts it has
Kept(res, at) ==
    [at |-> at, primary |-> res.primary.present,
     secondary |-> res.secondary.present, match |-> res.match,
     errorPrimary |-> ErrorKind(res.errorPrimary),
     errorSecondary |-> ErrorKind(res.errorSecondary)]

\* a main that truncates the stripped list before it de-duplicates it
AU_GatherCapFirst ==
    /\ prog = "auditor" /\ pc = "load"
    /\ \E g \in {gather_hashes(Args)} :
          IF ~g.ok
          THEN Halt("file-error", 1) /\ UNCHANGED tx_hashes
          ELSE \E capped \in {DictFromKeys(ApplyCap(
                                  StripAll(IF Args.file_given THEN Args.file
                                           ELSE Args.tx), args.max))} :
                  /\ tx_hashes' = PackAll(capped)
                  /\ IF capped = <<>>
                     THEN Halt("no-hashes", 1)
                     ELSE pc' = "validate" /\ UNCHANGED endVars
    /\ UNCHANGED <<cfgVars, hashes_raw, invalid_count, chainVars, countVars, idx,
                   call, fetchVars, printed, auditVars, fetched, soloVars>>

\* gather, strip and de-duplicate; nothing to do without hashes
AU_Gather ==
    /\ prog = "auditor" /\ pc = "load"
    /\ \E g \in {gather_hashes(Args)} :
          IF ~g.ok
          THEN Halt("file-error", 1) /\ UNCHANGED tx_hashes
          ELSE /\ tx_hashes' = PackAll(g.val)
               /\ IF g.val = <<>>
                  THEN Halt("no-hashes", 1)
                  ELSE pc' = "validate" /\ UNCHANGED endVars
    /\ UNCHANGED <<cfgVars, hashes_raw, invalid_count, chainVars, countVars, idx,
                   call, fetchVars, printed, auditVars, fetched, soloVars>>

\* bad = [h for h in hashes if not validate_tx_hash(h)]; any bad hash ends
\* the run
AU_Validate ==
    /\ prog = "auditor" /\ pc = "validate"
    /\ IF \E i \in 1..Len(tx_hashes) : ~validate_tx_hash(TxHash(i))
       THEN Halt("invalid-hash", 1)
       ELSE pc' = "cap" /\ UNCHANGED endVars
    /\ UNCHANGED <<cfgVars, inputVars, chainVars, countVars, idx, call,
                   fetchVars, printed, auditVars, fetched, soloVars>>

\* the --max cap
AU_Cap ==
    /\ prog = "auditor" /\ pc = "cap"
    /\ tx_hashes' = ApplyCap(tx_hashes, args.max)
    /\ pc' = "connect1"
    /\ UNCHANGED <<cfgVars, endVars, hashes_raw, invalid_count, chainVars,
                   countVars, idx, call, fetchVars, printed, auditVars, fetched,
                   soloVars>>

\* connect(rpc1), connect(rpc2)
AU_Connect ==
    /\ prog = "auditor" /\ pc = "connect1"
    /\ \E c1 \in BOOLEAN, c2 \in BOOLEAN :
          IF ~c1 \/ (rpc_url_2 /\ ~c2)
          THEN Halt("connect-failed", 1)
          ELSE /\ pc' = IF rpc_url_2 THEN "gate" ELSE "loop"
               /\ UNCHANGED endVars
    /\ UNCHANGED <<cfgVars, inputVars, chainVars, countVars, idx, call,
                   fetchVars, printed, auditVars, fetched, soloVars>>

\* a read of the chain id outside any try: a provider error ends main with
\* a traceback, an interrupt goes to the handler around main
EndOfRead(o) == IF o.err = "KeyboardInterrupt" THEN o.err ELSE "rpc-error"

\* how main ends after reading the primary's and then the secondary's chain
\* id: at the first read that fails, and as otherwise if none does
ReadFailure(o1, o2, otherwise) ==
    IF ~o1.ok THEN EndOfRead(o1)
    ELSE IF ~o2.ok THEN EndOfRead(o2)
    ELSE otherwise

\* the two chain ids are compared once, before the loop
AU_ChainGate ==
    /\ prog = "auditor" /\ pc = "gate"
    /\ \E o1 \in Outcomes("chain_id", 1), o2 \in Outcomes("chain_id", 2) :
          IF ~o1.ok
          THEN Halt(IF o1.err = "KeyboardInterrupt" THEN o1.err ELSE "rpc-error", 1)
          ELSE IF ~o2.ok
          THEN Halt(IF o2.err = "KeyboardInterrupt" THEN o2.err ELSE "rpc-error", 1)
          ELSE IF o1.val # o2.val
          THEN \* the message reads the two chain ids again
               \E m1 \in Outcomes("chain_id", 1), m2 \in Outcomes("chain_id", 2) :
                  Halt(ReadFailure(m1, m2, "chain-mismatch"), 1)
          ELSE pc' = "loop" /\ UNCHANGED endVars
    /\ UNCHANGED <<cfgVars, inputVars, chainVars, countVars, idx, call,
                   fetchVars, printed, auditVars, fetched, soloVars>>

\* for h in hashes: audit_tx(h, ...) starts with an empty record
AU_LoopNext ==
    /\ prog = "auditor" /\ pc = "loop"
    /\ IF idx <= Len(tx_hashes)
       THEN /\ pc' = "audit1"
            /\ result' = [NoResult EXCEPT !.txHash = tx_hashes[idx]]
       ELSE /\ pc' = "report"
            /\ UNCHANGED result
    /\ UNCHANGED <<cfgVars, endVars, inputVars, chainVars, countVars, idx, call,
                   fetchVars, printed, results, fetched, soloVars>>

\* audit_tx: primary
AU_Primary ==
    /\ prog = "auditor" /\ pc = "audit1"
    /\ \E o_r \in Outcomes("receipt", 1), o_c \in Outcomes("chain_id", 1) :
          \E b \in {auditor_build_commitment(o_r, o_c, Unpack(result.txHash))} :
              /\ b.err # "KeyboardInterrupt"
              /\ IF b.ok THEN result' = [result EXCEPT !.primary = b.val]
                 ELSE \E text \in ErrorTexts(b.err) :
                         result' = [result EXCEPT !.errorPrimary = text]
    /\ fetched' = fetched \cup {<<1, idx>>}
    /\ pc' = IF rpc_url_2 THEN "audit2" ELSE "compare"
    /\ UNCHANGED <<cfgVars, endVars, inputVars, chainVars, countVars, idx, call,
                   fetchVars, printed, results, soloVars>>

\* audit_tx: secondary (optional)
AU_Secondary ==
    /\ prog = "auditor" /\ pc = "audit2"
    /\ \E o_r \in Outcomes("receipt", 2), o_c \in Outcomes("chain_id", 2) :
          \E b \in {auditor_build_commitment(o_r, o_c, Unpack(result.txHash))} :
              /\ b.err # "KeyboardInterrupt"
              /\ IF b.ok THEN result' = [result EXCEPT !.secondary = b.val]
                 ELSE \E text \in ErrorTexts(b.err) :
                         result' = [result EXCEPT !.errorSecondary = text]
    /\ fetched' = fetched \cup {<<2, idx>>}
    /\ pc' = "compare"
    /\ UNCHANGED <<cfgVars, endVars, inputVars, chainVars, countVars, idx, call,
                   fetchVars, printed, results, soloVars>>

\* KeyboardInterrupt is no Exception: it leaves audit_tx and main, and the
\* handler around main exits with status 1
AU_Interrupt ==
    /\ prog = "auditor" /\ pc \in {"audit1", "audit2"}
    /\ \E o_r \in Outcomes("receipt", 1), o_c \in Outcomes("chain_id", 1) :
          \/ o_r.err = "KeyboardInterrupt"
          \/ o_r.ok /\ o_c.err = "KeyboardInterrupt"
    /\ Halt("KeyboardInterrupt", 1)
    /\ fetched' = fetched \cup {<<IF pc = "audit1" THEN 1 ELSE 2, idx>>}
    /\ result' = NoResult
    /\ UNCHANGED <<cfgVars, inputVars, chainVars, countVars, idx, call,
                   fetchVars, printed, results, soloVars>>

\* audit_tx: compare if both succeeded, and return the record
AU_Compare ==
    /\ prog = "auditor" /\ pc = "compare"
    /\ result' = [result EXCEPT !.match = CompareResult(result)]
    /\ pc' = "append"
    /\ UNCHANGED <<cfgVars, endVars, inputVars, chainVars, countVars, idx, call,
                   fetchVars, printed, results, fetched, soloVars>>

\* a loop that puts each record in front of the earlier ones
AU_AppendFront ==
    /\ prog = "auditor" /\ pc = "append"
    /\ results' = <<Kept(result, idx)>> \o results
    /\ result' = NoResult
    /\ idx' = idx + 1
    /\ pc' = "loop"
    /\ UNCHANGED <<cfgVars, endVars, inputVars, chainVars, countVars, call,
                   fetchVars, printed, fetched, soloVars>>

\* results.append(res)
AU_Append ==
    /\ prog = "auditor" /\ pc = "append"
    /\ results' = Append(results, Kept(result, idx))
    /\ result' = NoResult
    /\ idx' = idx + 1
    /\ pc' = "loop"
    /\ UNCHANGED <<cfgVars, endVars, inputVars, chainVars, countVars, call,
                   fetchVars, printed, fetched, soloVars>>

\* the report; main returns
AU_Report ==
    /\ prog = "auditor" /\ pc = "report"
    /\ \E json \in BOOLEAN, o1 \in Outcomes("chain_id", 1),
          o2 \in IF rpc_url_2 THEN Outcomes("chain_id", 2) ELSE {Ok(0)} :
          \E end \in {ReadFailure(o1, o2, "finished")} :
              IF end # "finished" THEN Halt(end, 1)
              ELSE IF ~json /\ \E k \in 1..Len(results) :
                                  results[k].errorPrimary = EmptyMessage
              THEN Halt("report-error", 1)
              ELSE Halt("finished", 0)
    /\ UNCHANGED <<cfgVars, inputVars, chainVars, countVars, idx, call,
                   fetchVars, printed, auditVars, fetched, soloVars>>

AuditorNext ==
    \/ AU_Gather
    \/ AU_Validate
    \/ AU_Cap
    \/ AU_Connect
    \/ AU_ChainGate
    \/ AU_LoopNext
    \/ AU_Primary
    \/ AU_Secondary
    \/ AU_Interrupt
    \/ AU_Compare
    \/ AU_Append
    \/ AU_Report

(***************************************************************************)
(* The batch programs.                                                     *)
(***************************************************************************)
Init == InitMain /\ rx = RxIdle /\ cm = CmIdle

Next == TxbatchNext \/ AuditorNext

Spec == Init /\ [][Next]_vars


(***************************************************************************)
(* The retry executor on its own: safe_rpc_call(func, retries = n) with a  *)
(* func that does anything on each attempt.                                *)
(***************************************************************************)
\* nothing of the batch programs runs
MainIdle ==
    /\ prog = "none"
    /\ pc = "idle"
    /\ halt = ""
    /\ exit_code = -1
    /\ args = [tx |-> <<>>, file_given |-> FALSE, file_error |-> FALSE,
               file |-> <<>>, max |-> 0]
    /\ rpc_url_2 = FALSE
    /\ chain_of = <<1, 1>>
    /\ hashes_raw = <<>>
    /\ tx_hashes = <<>>
    /\ invalid_count = 0
    /\ primary_chain_id = 0
    /\ secondary_chain_id = 0
    /\ success_count = 0
    /\ fail_count = 0
    /\ not_found_count = 0
    /\ mismatch_count = 0
    /\ idx = 1
    /\ call = NoCall
    /\ rcpt = NoReceipt
    /\ bundle_primary = NoBundle
    /\ bundle_secondary = NoBundle
    /\ match = TRUE
    /\ cross_note = "-"
    /\ printed = <<>>
    /\ result = NoResult
    /\ results = <<>>
    /\ fetched = {}

\* what an attempt of func can do: a value, or an exception
RxOutcomes ==
    {Ok(1), Ok(137), Raised("timeout"), Raised("connection reset"),
     Raised("TransactionNotFound"), Raised("KeyboardInterrupt")}

InitRetry ==
    /\ MainIdle
    /\ cm = CmIdle
    /\ \E impl \in {"txbatch", "txapp"}, n \in 1..MaxRetries :
          rx = [impl |-> impl, retries |-> n, attempt |-> 1, calls |-> 0,
                sleeps |-> 0, state |-> "running", result |-> 0,
                raised |-> "none", last |-> "none"]

RX_Step(o) ==
    IF rx.impl = "txbatch"
    THEN safe_rpc_call(rx.attempt, rx.retries, o)
    ELSE txapp_safe_rpc_call(rx.attempt, rx.retries, o)

\* the attempt succeeds: its value is returned
RX_Return ==
    /\ rx.state = "running"
    /\ \E o \in RxOutcomes :
          /\ RX_Step(o).ctl = "return"
          /\ rx' = [rx EXCEPT !.calls = @ + 1, !.state = "returned",
                              !.result = o.val]
    /\ UNCHANGED <<mainVars, cm>>

\* the attempt fails and another follows after the delay
RX_Retry ==
    /\ rx.state = "running"
    /\ \E o \in RxOutcomes :
          /\ RX_Step(o).ctl = "retry"
          /\ rx' = [rx EXCEPT !.calls = @ + 1, !.attempt = @ + 1,
                              !.sleeps = @ + 1, !.last = o.err]
    /\ UNCHANGED <<mainVars, cm>>

\* the attempt fails and its exception leaves the executor
RX_Raise ==
    /\ rx.state = "running"
    /\ \E o \in RxOutcomes :
          /\ RX_Step(o).ctl = "raise"
          /\ rx' = [rx EXCEPT !.calls = @ + 1, !.state = "raised",
                              !.raised = RX_Step(o).err, !.last = o.err]
    /\ UNCHANGED <<mainVars, cm>>

\* txapp: the last attempt fails, is slept on, and the process exits
RX_Exit ==
    /\ rx.state = "running"
    /\ \E o \in RxOutcomes :
          /\ RX_Step(o).ctl = "exit"
          /\ rx' = [rx EXCEPT !.calls = @ + 1, !.state = "exited",
                              !.sleeps = @ + 1,
                              !.raised = RX_Step(o).err, !.last = o.err]
    /\ UNCHANGED <<mainVars, cm>>

RetryNext == RX_Return \/ RX_Retry \/ RX_Raise \/ RX_Exit

SpecRetry == InitRetry /\ [][RetryNext]_vars

(***************************************************************************)
(* The commitment derivation on its own: two field tuples, derived by      *)
(* both implementations.                                                   *)
(***************************************************************************)
Fields(c, h, b, s, g) ==
    [chain_id |-> c, tx_hash |-> h, block_number |-> b, status |-> s,
     gas_used |-> g]

\* 2^64 - 1, 2^64, 2^64 + 1 and 2^72
MaxWord == [neg |-> FALSE, mag |-> [i \in 1..WordBytes |-> 255]]
TwoTo64 == [neg |-> FALSE, mag |-> <<1>> \o [i \in 1..WordBytes |-> 0]]
TwoTo64Plus1 == [TwoTo64 EXCEPT !.mag[WordBytes + 1] = 1]
TwoTo72 == [neg |-> FALSE, mag |-> <<1, 0>> \o [i \in 1..WordBytes |-> 0]]

\* field tuples within the ranges; 11155111 is Sepolia, H1Upper spells the
\* bytes of H1, 16777316 is 100 + 2^24
FieldTuples ==
    { Fields(c, h, b, s, g) :
        c \in {Num(1), Num(11155111)}, h \in {H1, H1Upper, H2},
        b \in {Num(100), Num(16777316)}, s \in {Num(0), Num(1)},
        g \in {Num(21000), Num(21001), Num(256), MaxWord} }

\* a tuple within the ranges with one field replaced by a value at or
\* beyond the edge of its range
BaseTuple == Fields(Num(1), H1, Num(100), Num(1), Num(21000))

WideValues == {Num(-1), Num(-256), TwoTo64, TwoTo64Plus1, TwoTo72}

EdgeTuples ==
    {[BaseTuple EXCEPT !.status = s] :
        s \in {Num(2), Num(255), Num(256), Num(-1)}}
    \cup {[BaseTuple EXCEPT !.chain_id = v] : v \in WideValues}
    \cup {[BaseTuple EXCEPT !.block_number = v] : v \in WideValues}
    \cup {[BaseTuple EXCEPT !.gas_used = v] : v \in WideValues}

\* pairs of tuples within the ranges, and each edge tuple next to the tuple
\* it was made from
TuplePairs ==
    (FieldTuples \X FieldTuples) \cup {<<t, BaseTuple>> : t \in EdgeTuples}

Derive(impl, t) ==
    IF impl = "txbatch"
    THEN Preimage(t.chain_id, t.tx_hash, t.block_number, t.status, t.gas_used)
    ELSE AuditorPreimage(t.chain_id, t.tx_hash, t.block_number, t.status,
                         t.gas_used)

InitCommit ==
    /\ MainIdle
    /\ rx = RxIdle
    /\ \E impl \in {"txbatch", "auditor"}, ab \in TuplePairs :
          cm = [state |-> "in", impl |-> impl, a |-> ab[1], b |-> ab[2],
                pre_a |-> Raised("none"), pre_b |-> Raised("none")]

\* both preimages are built (the commitment is Keccak of the preimage)
CM_Derive ==
    /\ cm.state = "in"
    /\ cm' = [cm EXCEPT !.state = "out",
                        !.pre_a = Derive(cm.impl, cm.a),
                        !.pre_b = Derive(cm.impl, cm.b)]
    /\ UNCHANGED <<mainVars, rx>>

CommitNext == CM_Derive

SpecCommit == InitCommit /\ [][CommitNext]_vars


(***************************************************************************)
(* Properties.                                                             *)
(***************************************************************************)
\* the 32 bytes a well-formed hash string names
HashValue(h) ==
    [i \in 1..(HexLen \div 2) |-> 16 * HexVal(h[2 * i + 1]) + HexVal(h[2 * i + 2])]

\* the two tuples are the same five values
SameFields(a, b) ==
    /\ a.chain_id = b.chain_id
    /\ HashValue(a.tx_hash) = HashValue(b.tx_hash)
    /\ a.block_number = b.block_number
    /\ a.status = b.status
    /\ a.gas_used = b.gas_used

\* a value of w bytes: 0 .. 256^w - 1
Fits(v, w) == ~v.neg /\ Len(v.mag) <= w

\* the numbers of the tuple are within 64 bits, the status within one byte
InRanges(t) ==
    /\ Fits(t.chain_id, WordBytes)
    /\ Fits(t.block_number, WordBytes)
    /\ Fits(t.gas_used, WordBytes)
    /\ Fits(t.status, StatusBytes)

PreimageLen == WordBytes + (HexLen \div 2) + WordBytes + StatusBytes + WordBytes

\* C1: for field tuples within the 64-bit / 1-byte / 32-byte ranges, the
\* preimage is 57 bytes and two tuples have the same commitment if and only
\* if they agree on all five fields (Keccak is one-to-one here)
C1_CommitmentInjective ==
    (cm.state = "out" /\ InRanges(cm.a) /\ InRanges(cm.b)) =>
        /\ cm.pre_a.ok /\ cm.pre_b.ok
        /\ Len(cm.pre_a.val) = PreimageLen
        /\ Len(cm.pre_b.val) = PreimageLen
        /\ \A i \in 1..Len(cm.pre_a.val) : cm.pre_a.val[i] \in 0..255
        /\ (Keccak(cm.pre_a.val) = Keccak(cm.pre_b.val)) <=> SameFields(cm.a, cm.b)

\* two tuples that differ in the status alone get different commitments
C1_Witness ==
    /\ cm.state = "out"
    /\ cm.a.status # cm.b.status
    /\ SameFields(cm.a, [cm.b EXCEPT !.status = cm.a.status])
    /\ cm.pre_a.ok /\ cm.pre_b.ok
    /\ Keccak(cm.pre_a.val) # Keccak(cm.pre_b.val)

\* the two bundles report the same chain, block, status and gas
SameReported(bp, bs) ==
    /\ bp.chain_id = bs.chain_id
    /\ bp.block_number = bs.block_number
    /\ bp.status = bs.status
    /\ bp.gas_used = bs.gas_used

\* C2: when both providers returned a bundle, a match is declared exactly
\* when the two commitments are equal, and a secondary reporting another
\* gasUsed, blockNumber, status or chainId gives a mismatch
C2_MatchIsCommitmentEquality ==
    /\ (prog = "txbatch" /\ pc = "row" /\ bundle_secondary.present) =>
          /\ match <=> (bundle_primary.commitment = bundle_secondary.commitment)
          /\ match <=> SameReported(bundle_primary, bundle_secondary)
          /\ cross_note = IF match THEN "ok" ELSE "mismatch"
    /\ (prog = "auditor" /\ pc = "append"
            /\ result.primary.present /\ result.secondary.present) =>
          /\ result.match \in {"True", "False"}
          /\ (result.match = "True")
                <=> (result.primary.commitment = result.secondary.commitment)
          /\ (result.match = "True")
                <=> SameReported(result.primary, result.secondary)

\* the secondary reports another gasUsed and the row is a mismatch
C2_Witness ==
    /\ prog = "txbatch" /\ pc = "row"
    /\ bundle_primary.present /\ bundle_secondary.present
    /\ bundle_primary.gas_used # bundle_secondary.gas_used
    /\ bundle_primary.status = bundle_secondary.status
    /\ ~match

\* C3: whatever fails at the providers, the loop goes through every hash:
\* each hash counts in exactly one of success, failed and not-found
\* (txbatch) or gets exactly one record (auditor), and a provider failure
\* inside the loop never ends the batch
C3_EveryHashProcessed ==
    /\ (prog = "txbatch" /\ pc \in {"loop", "fetch", "row", "summary"}) =>
          /\ success_count + fail_count + not_found_count = idx - 1
          /\ Len(printed) = idx - 1
          /\ \A k \in 1..Len(printed) : printed[k].at = k
    /\ (prog = "txbatch" /\ halt = "finished") =>
          /\ success_count + fail_count + not_found_count = Len(tx_hashes)
          /\ Len(printed) = Len(tx_hashes)
          /\ \A i \in 1..Len(tx_hashes) : <<1, i>> \in fetched
    /\ (prog = "auditor"
            /\ pc \in {"loop", "audit1", "audit2", "compare", "append", "report"}) =>
          /\ Len(results) = idx - 1
          /\ \A k \in 1..Len(results) : results[k].at = k
    /\ (prog = "auditor" /\ halt = "finished") =>
          /\ Len(results) = Len(tx_hashes)
          /\ \A i \in 1..Len(tx_hashes) : <<1, i>> \in fetched
    /\ (prog = "txbatch" /\ pc = "done" /\ fetched # {}) =>
          halt \in {"finished", "KeyboardInterrupt"}
    /\ (prog = "auditor" /\ pc = "done" /\ fetched # {}) =>
          \/ halt = "KeyboardInterrupt"
          \/ /\ halt \in {"finished", "rpc-error", "report-error"}
             /\ Len(results) = Len(tx_hashes)
             /\ \A i \in 1..Len(tx_hashes) : <<1, i>> \in fetched

\* the first of two hashes failed at the provider and the second was still
\* fetched and reported
C3_Witness ==
    /\ prog = "txbatch" /\ halt = "finished"
    /\ Len(tx_hashes) = 2
    /\ Len(printed) = 2
    /\ printed[1].kind = "error"
    /\ printed[2].kind = "row"

\* C4: the executor makes at least one and at most retries attempts,
\* returns the value of the first attempt that succeeds, and when every
\* attempt failed hands its caller the error of the last attempt
C4_BoundedRetry ==
    /\ rx.calls <= rx.retries
    /\ rx.state \in {"returned", "raised", "exited"} => rx.calls >= 1
    /\ rx.state = "returned" => rx.sleeps = rx.calls - 1
    /\ (rx.state \in {"raised", "exited"} /\ rx.last # "KeyboardInterrupt") =>
          /\ rx.state = "raised"
          /\ rx.raised = rx.last
          /\ rx.calls = rx.retries

\* C5: a not-found answer of the provider is not retried: after it the
\* executor neither sleeps nor calls the provider again
C5_NotFoundNotRetried ==
    (prog = "txbatch" /\ pc = "fetch")
        => ~(call.last = "TransactionNotFound" /\ call.attempt > 1)

\* C6: with two providers each one is fetched whatever the other did, and
\* when exactly one of them fails the verdict is neither a mismatch nor ok
\* and the bundle of the one that succeeded is kept
C6_ProviderIsolation ==
    /\ (prog = "txbatch" /\ rpc_url_2) =>
          \A k \in 1..Len(printed) : <<2, printed[k].at>> \in fetched
    /\ (prog = "txbatch" /\ rpc_url_2 /\ pc = "row"
            /\ ~bundle_secondary.present) =>
          /\ bundle_primary.present
          /\ match
          /\ cross_note \notin {"ok", "mismatch"}
    /\ (prog = "auditor" /\ rpc_url_2) =>
          \A k \in 1..Len(results) : <<2, results[k].at>> \in fetched
    /\ (prog = "auditor" /\ rpc_url_2 /\ pc = "append"
            /\ result.primary.present # result.secondary.present) =>
          /\ result.match = "None"
          /\ (result.errorPrimary # "None") # (result.errorSecondary # "None")

\* C7: when the two providers report different chain ids no transaction is
\* ever fetched and the batch does not run to its end
C7_ChainGate ==
    (rpc_url_2 /\ chain_of[1] # chain_of[2]) =>
        /\ fetched = {}
        /\ halt # "finished"

\* C8: no fetch is issued for a string that is not 0x and 64 hex digits
C8_MalformedNeverFetched ==
    \A f \in fetched : WellFormed(TxHash(f[2]))

\* C9: a malformed hash does not end the batch: when the run is over, every
\* well-formed hash of the list has been fetched
C9_InvalidPerItem ==
    (pc = "done" /\ halt \in {"finished", "invalid-hash"}) =>
        \A i \in 1..Len(tx_hashes) :
            WellFormed(TxHash(i)) => <<1, i>> \in fetched

\* the place of the first x in list
FirstPos(list, x) ==
    CHOOSE i \in 1..Len(list) :
        list[i] = x /\ \A j \in 1..(i - 1) : list[j] # x

\* out is list without its repeats, in first-seen order
IsFirstSeen(out, list) ==
    /\ \A i, j \in 1..Len(out) : i # j => out[i] # out[j]
    /\ {out[i] : i \in 1..Len(out)} = {list[i] : i \in 1..Len(list)}
    /\ \A i, j \in 1..Len(out) :
          i < j => FirstPos(list, out[i]) < FirstPos(list, out[j])

\* the gathered input: the --tx values and the file's lines (txbatch), the
\* file's lines or else the positional hashes, stripped (auditor)
Gathered ==
    IF prog = "txbatch"
    THEN Args.tx \o (IF Args.file_given THEN FileLines(Args.file) ELSE <<>>)
    ELSE StripAll(IF Args.file_given THEN Args.file ELSE Args.tx)

\* C10: the list handed on by the loader is the gathered input without its
\* repeats, in first-seen order, and loading that list again changes
\* nothing, so the batch on a list with repeats is the batch on the
\* de-duplicated list
C10_DedupFirstSeen ==
    /\ (prog = "txbatch" /\ pc = "parse") =>
          /\ IsFirstSeen(HashesRaw, Gathered)
          /\ load_hashes([Args EXCEPT !.tx = HashesRaw,
                                      !.file_given = FALSE]).val = HashesRaw
    /\ (prog = "auditor" /\ pc = "validate") =>
          /\ IsFirstSeen(TxHashes, Gathered)
          /\ gather_hashes([Args EXCEPT !.tx = TxHashes,
                                        !.file_given = FALSE]).val = TxHashes

\* the same hash was given twice and one is handed on
C10_Witness ==
    /\ prog = "txbatch" /\ pc = "parse"
    /\ Len(Args.tx) = 2
    /\ Args.tx[1] = Args.tx[2]
    /\ Len(HashesRaw) = 1

Min(a, b) == IF a <= b THEN a ELSE b

\* the gathered input without its repeats, in first-seen order
FirstSeen(list) == Dedup(list)

\* C11: with a cap K > 0 the hashes processed are the first min(K, n) of the
\* n de-duplicated hashes, in their order; with K = 0 all n are processed.
\* The cap comes after the de-duplication: a repeat among the gathered
\* strings takes no place under the cap
C11_CapFirstK ==
    /\ (prog = "auditor" /\ (pc = "connect1" \/ halt = "finished")) =>
          \E g \in {FirstSeen(Gathered)} :
              /\ IsFirstSeen(g, Gathered)
              /\ Len(tx_hashes) = IF args.max > 0 THEN Min(args.max, Len(g))
                                  ELSE Len(g)
              /\ \A i \in 1..Len(tx_hashes) : TxHash(i) = g[i]
    /\ (prog = "auditor" /\ halt = "finished") =>
          {f[2] : f \in fetched} = 1..Len(tx_hashes)
    /\ prog = "auditor" => \A f \in fetched : f[2] \in 1..Len(tx_hashes)

\* three strings were gathered, the first two the same, under a cap of two:
\* the two different hashes are both processed
C11_Witness ==
    /\ prog = "auditor" /\ halt = "finished"
    /\ args.max = 2
    /\ Len(Gathered) = 3
    /\ Gathered[1] = Gathered[2]
    /\ Gathered[2] # Gathered[3]
    /\ Len(tx_hashes) = 2
    /\ TxHash(1) = Gathered[1] /\ TxHash(2) = Gathered[3]
    /\ {f[2] : f \in fetched} = {1, 2}

\* C12: with one provider, a hash whose fetch succeeded is reported with its
\* commitment, one whose fetch failed after the retries as an error, and one
\* whose receipt is absent as not-found: a provider answering None for the
\* receipt (the RuntimeError of fetch_bundle) gives a not-found row, counted
\* in not_found and not in failed
C12_SingleProviderVerdicts ==
    (prog = "txbatch" /\ ~rpc_url_2) =>
        /\ \A k \in 1..Len(printed) :
              printed[k].err = "RuntimeError" => printed[k].kind = "not-found"
        /\ pc \in {"loop", "summary"} =>
              /\ not_found_count
                    = Cardinality({k \in 1..Len(printed) :
                                      printed[k].kind = "not-found"})
              /\ fail_count >= Cardinality({k \in 1..Len(printed) :
                                               printed[k].kind = "error"})

\* the step prints a line of the given kind for the current hash
Prints(kind) ==
    /\ Len(printed') = Len(printed) + 1
    /\ printed'[Len(printed')].kind = kind

\* C13: the counters are true counts: a transaction counts as success only
\* with status 1 and an ok verdict, as failed only when it was fetched with
\* status 0, as not-found only when it was not found, and a provider error
\* or a mismatch counts in its own category and in no other
C13_TrueCounts ==
    [][prog = "txbatch" =>
          /\ Prints("row") =>
                /\ success_count' = success_count
                      + (IF bundle_primary.status = 1 /\ match THEN 1 ELSE 0)
                /\ ~match => fail_count' = fail_count
                /\ match => fail_count' = fail_count
                      + (IF bundle_primary.status = 0 THEN 1 ELSE 0)
                /\ not_found_count' = not_found_count
          /\ (Prints("error") /\ printed'[Len(printed')].err = "ConnectionError") =>
                /\ success_count' = success_count
                /\ fail_count' = fail_count
                /\ not_found_count' = not_found_count
                /\ mismatch_count' = mismatch_count
          /\ Prints("not-found") =>
                /\ success_count' = success_count
                /\ fail_count' = fail_count
                /\ not_found_count' = not_found_count + 1
                /\ mismatch_count' = mismatch_count]_vars

\* C14: the run returns the mismatch code 2 exactly when some transaction
\* was fetched from both providers with different commitments: a row counts
\* in cross_mismatches exactly in that case, nothing else does, and the
\* code is 2 exactly when the count is positive
C14_MismatchExitCode ==
    [][prog = "txbatch" =>
          /\ Prints("row") =>
                /\ mismatch_count' \in {mismatch_count, mismatch_count + 1}
                /\ (mismatch_count' = mismatch_count + 1)
                      <=> /\ bundle_primary.present
                          /\ bundle_secondary.present
                          /\ bundle_primary.commitment
                                # bundle_secondary.commitment
          /\ ~Prints("row") => mismatch_count' = mismatch_count
          /\ halt' = "finished" =>
                ((exit_code' = 2) <=> (mismatch_count' > 0))]_vars

\* C15: the run returns 0 exactly when every input hash was valid and every
\* transaction was fetched with status 1, none not found, failed or
\* mismatching; and the code returned for empty or all-malformed input is
\* neither 0 nor the code returned when a transaction fails or is not found
C15_ExitStatus ==
    prog = "txbatch" =>
        /\ halt = "finished" =>
              ((exit_code = 0)
                  <=> /\ invalid_count = 0
                      /\ fail_count = 0
                      /\ not_found_count = 0
                      /\ mismatch_count = 0
                      /\ success_count = Len(tx_hashes))
        /\ halt \in {"no-hashes", "no-valid-hashes"} =>
              /\ exit_code # 0
              /\ exit_code # ExitStatus(0, 1, 0, 0, rpc_url_2)
              /\ exit_code # ExitStatus(0, 0, 1, 0, rpc_url_2)


\* no retry, printed line or returned record comes from a user interrupt
InterruptNotHandled ==
    /\ call.last # "KeyboardInterrupt"
    /\ \A k \in 1..Len(printed) : printed[k].err # "KeyboardInterrupt"
    /\ result.errorPrimary # "KeyboardInterrupt"
    /\ result.errorSecondary # "KeyboardInterrupt"
    /\ halt = "KeyboardInterrupt" =>
          /\ pc = "done"
          /\ call = NoCall
          /\ exit_code \notin {-1, 0}

\* C16: a user interrupt during an attempt of a provider call is not
\* retried and not turned into a provider error or a verdict; it ends the
\* run, and after it no step is taken: no provider call, no summary
C16_Cancellation ==
    /\ []InterruptNotHandled
    /\ [][halt # "KeyboardInterrupt"]_vars

\* the run was interrupted during the fetch of the second hash, after the
\* first had been reported
C16_Witness ==
    /\ prog = "txbatch"
    /\ halt = "KeyboardInterrupt"
    /\ Len(printed) = 1
    /\ <<1, 2>> \in fetched

\* C17: every receipt or transaction fetch goes through the retry executor:
\* a transient failure is recorded as the provider's error only by an
\* executor that has used up its attempts, so fewer than N failures
\* followed by a success give a bundle
C17_FetchesRetried ==
    [][/\ (prog = "txbatch" /\ Prints("error")
              /\ printed'[Len(printed')].err = "ConnectionError") =>
             (call.p = 1 /\ call.attempt = DefaultRetries)
       /\ (prog = "auditor" /\ result.errorPrimary = "None"
              /\ result'.errorPrimary = "ConnectionError") =>
             (call.p = 1 /\ call.attempt = DefaultRetries)
       /\ (prog = "auditor" /\ result.errorSecondary = "None"
              /\ result'.errorSecondary = "ConnectionError") =>
             (call.p = 2 /\ call.attempt = DefaultRetries)]_vars

\* C18: the derivation fails for a status other than 0 and 1
C18_StatusRejected ==
    cm.state = "out" =>
        /\ cm.a.status \notin {Num(0), Num(1)} => ~cm.pre_a.ok
        /\ cm.b.status \notin {Num(0), Num(1)} => ~cm.pre_b.ok

\* some number of the tuple is negative or at least 2^64
Overflows(t) ==
    \/ ~Fits(t.chain_id, WordBytes)
    \/ ~Fits(t.block_number, WordBytes)
    \/ ~Fits(t.gas_used, WordBytes)

\* C19: the derivation fails with an error for a chainId, blockNumber or
\* gasUsed that is negative or at least 2^64: no preimage, and so no
\* commitment, is made of a reduced or truncated value
C19_OverflowRejected ==
    cm.state = "out" =>
        /\ Overflows(cm.a) => (~cm.pre_a.ok /\ cm.pre_a.err = "OverflowError")
        /\ Overflows(cm.b) => (~cm.pre_b.ok /\ cm.pre_b.err = "OverflowError")

\* a gasUsed of exactly 2^64 was refused
C19_Witness ==
    /\ cm.state = "out"
    /\ cm.a.gas_used = TwoTo64
    /\ ~cm.pre_a.ok
    /\ cm.pre_b.ok

\* how many hashes have their line or record
Reported == IF prog = "auditor" THEN Len(results) ELSE Len(printed)

\* C20: the i-th line or record reported is that of the i-th hash of the
\* list, the hashes are fetched in the order of the list, and no provider
\* call is issued for a hash before every earlier hash has been reported
C20_SequentialOrder ==
    /\ \A k \in 1..Len(printed) : printed[k].at = k
    /\ \A k \in 1..Len(results) : results[k].at = k
    /\ \A f \in fetched :
          /\ f[2] \in 1..Len(tx_hashes)
          /\ f[2] <= Reported + 1
          /\ <<1, f[2]>> \in fetched
          /\ \A j \in 1..(f[2] - 1) : <<1, j>> \in fetched
    /\ Reported <= Len(tx_hashes)

\* two different hashes went through the auditor, both with two providers
C20_Witness ==
    /\ prog = "auditor" /\ halt = "finished"
    /\ Len(tx_hashes) = 2
    /\ TxHash(1) # TxHash(2)
    /\ Len(results) = 2
    /\ fetched = {<<1, 1>>, <<2, 1>>, <<1, 2>>, <<2, 2>>}

\* C21: the normalized list the txbatch loop goes through holds no hash
\* twice, whatever the spellings of the raw input, so each hash has one
\* line and counts once
C21_NoNormalizedDuplicates ==
    prog = "txbatch" =>
        /\ \A i, j \in 1..Len(tx_hashes) :
              i # j => TxHash(i) # TxHash(j)
        /\ \A i, j \in 1..Len(printed) :
              i # j => TxHash(printed[i].at) # TxHash(printed[j].at)

\* the calls of the fetch_bundle under way that came before the call under way
PriorCalls == call.calls - (call.attempt - 1)

\* the state of a fetch_bundle: which call, which attempt, how many before
FetchBudget ==
    (prog = "txbatch" /\ pc = "fetch") =>
        /\ call.op \in {"receipt", "tx", "chain_id"}
        /\ call.attempt \in 1..DefaultRetries
        /\ call.op = "receipt" => PriorCalls = 0
        /\ call.op = "tx" => PriorCalls \in 1..DefaultRetries
        /\ call.op = "chain_id" =>
              /\ PriorCalls \in 2..(2 * DefaultRetries)
              /\ ~rcpt.none
        /\ call.calls + 1 <= 3 * DefaultRetries

\* the steps of a fetch_bundle: the same call again, or the next one
FetchOrder ==
    (prog = "txbatch" /\ pc = "fetch" /\ call' # call) =>
        /\ (pc' = "fetch" /\ call'.p = call.p) =>
              /\ call'.calls = call.calls + 1
              /\ \/ call'.op = call.op /\ call'.attempt = call.attempt + 1
                 \/ /\ call.op = "receipt" /\ call'.op = "tx"
                    /\ call'.attempt = 1
                    /\ \E o \in Outcomes("receipt", call.p) :
                          /\ safe_rpc_call(call.attempt, DefaultRetries, o).ctl
                                = "return"
                          /\ rcpt' = o.val
                 \/ /\ call.op = "tx" /\ call'.op = "chain_id"
                    /\ call'.attempt = 1
                    /\ ~rcpt.none
                    /\ rcpt' = rcpt
        /\ (pc' = "fetch" /\ call'.p # call.p) =>
              /\ call.op = "chain_id"
              /\ call' = StartCall(2, "receipt")
        /\ (call.op # "chain_id" \/ rcpt.none) =>
              /\ bundle_primary'.present => bundle_primary' = bundle_primary
              /\ bundle_secondary'.present =>
                    bundle_secondary' = bundle_secondary

\* C22: one fetch_bundle asks for the receipt first, the transaction second
\* and the chain id last, each within its own retry budget; a receipt call
\* that fails stops the fetch, a None receipt stops it after the transaction
\* call, before the chain id and the commitment; so one fetch_bundle issues
\* at most 3 x retries provider calls
C22_FetchBundleCalls == []FetchBudget /\ [][FetchOrder]_vars

\* the chain id call of a fetch_bundle on its last attempt, after a receipt
\* call and a transaction call that each took every attempt they had
C22_Witness ==
    /\ prog = "txbatch" /\ pc = "fetch"
    /\ call.op = "chain_id"
    /\ call.attempt = DefaultRetries
    /\ call.calls + 1 = 3 * DefaultRetries

\* the record audit_tx returns has exactly one of bundle and error for a
\* provider that was asked
OneOfBundleAndError(present, error) == present <=> (error = "None")

\* C23: the record audit_tx returns has exactly one of primary and
\* errorPrimary; with a secondary provider exactly one of secondary and
\* errorSecondary, without one neither; and match is set exactly when both
\* bundles are there, to the equality of the two commitments. The records
\* kept in the result list have the same shape
C23_ResultRecord ==
    /\ (prog = "auditor" /\ pc = "append") =>
          /\ OneOfBundleAndError(result.primary.present, result.errorPrimary)
          /\ IF rpc_url_2
             THEN OneOfBundleAndError(result.secondary.present,
                                      result.errorSecondary)
             ELSE ~result.secondary.present /\ result.errorSecondary = "None"
          /\ (result.match # "None")
                <=> (result.primary.present /\ result.secondary.present)
          /\ (result.match # "None") =>
                result.match =
                    IF result.primary.commitment = result.secondary.commitment
                    THEN "True" ELSE "False"
    /\ prog = "auditor" =>
          \A k \in 1..Len(results) :
              /\ OneOfBundleAndError(results[k].primary, results[k].errorPrimary)
              /\ IF rpc_url_2
                 THEN OneOfBundleAndError(results[k].secondary,
                                          results[k].errorSecondary)
                 ELSE ~results[k].secondary /\ results[k].errorSecondary = "None"
              /\ (results[k].match # "None")
                    <=> (results[k].primary /\ results[k].secondary)

\* audit_tx returns a record with the primary's bundle, the secondary's
\* error and no verdict
C23_Witness ==
    /\ prog = "auditor" /\ pc = "append" /\ rpc_url_2
    /\ result.primary.present /\ result.errorPrimary = "None"
    /\ ~result.secondary.present /\ result.errorSecondary # "None"
    /\ result.match = "None"

=============================================================================
